---------------------------- MODULE Spec2Model ----------------------------
(***************************************************************************)
(* Silent Print Agent (chamidu-h/silent-printing).                         *)
(*                                                                         *)
(* Two programs of the repository are modelled:                            *)
(*   - the HTML agent (src/unnamed/part_000): POST /print takes {html},    *)
(*     resolves the configured printer, renders the payload in a hidden    *)
(*     window and prints it;                                               *)
(*   - the PDF agent (src/main.js): POST /print takes {pdfBase64}, writes  *)
(*     a temporary file and prints it through a window (win32) or the lp   *)
(*     command.  main.js holds two variants of the PDF agent; pdfVariant   *)
(*     tells them apart.                                                   *)
(* The variable agent says which program a behaviour is of.                *)
(*                                                                         *)
(* Spec is either agent serving print requests, with the settings window   *)
(* saving printer names.  SpecSettings is the HTML agent with port         *)
(* changes, the restart dialog and test prints; SpecEnumeration adds GET   *)
(* /printers; SpecConfigFile adds rewrites of the configuration file.      *)
(*                                                                         *)
(* Every HTTP request is a process r.  A handler runs from one suspension  *)
(* point (await, event, callback) to the next as one action:               *)
(* JavaScript runs a callback and the microtasks it queues to completion   *)
(* before the next event is taken.                                         *)
(***************************************************************************)
EXTENDS Naturals, Integers, Sequences, FiniteSets, TLC

(***************************************************************************)
(* Bounds of the model.                                                    *)
(***************************************************************************)
MaxReqs == 2          \* requests an agent serves at the same time
MaxSettingsReqs == 1  \* requests served while the settings are changed (SpecSettings)
MaxDevices == 2       \* printers the OS reports
MaxClock == 1         \* milliseconds Date.now() moves on
MaxLoadEvents == 2    \* did-finish-load events one window delivers

Reqs == 1..MaxReqs

(***************************************************************************)
(* JavaScript values.                                                      *)
(***************************************************************************)
Undefined == "<undefined>"

\* !x for the values the handlers test: undefined and the empty string are falsy.
Falsy(x) == x = Undefined \/ x = ""

\* a || b
OrElse(a, b) == IF Falsy(a) THEN b ELSE a

(***************************************************************************)
(* Inputs.                                                                 *)
(***************************************************************************)
PrinterNames == {"XP-80C", "POS-58"}
ConfigNames == PrinterNames \cup {""}
Ports == {4000, 4001}
Offsets == {2}
HtmlBodies == {Undefined, "", "<p>x</p>"}
\* document.documentElement.scrollHeight of the rendered payload, in CSS px
ScrollHeights == {0, 454}

Device == [name : PrinterNames, isDefault : BOOLEAN]
DeviceLists == UNION {[1..n -> Device] : n \in 0..MaxDevices}

\* What the print completion callback may report: (success, failureReason).
FailureReasons == {"", "Invalid printer settings"}

VARIABLES
    agent,          \* which program runs: "html" (part_000) or "pdf" (main.js)
    \* ---- the configuration and the settings window
    store,          \* electron-store: [port, printerName, xOffsetMm]
    settingsWindow, \* the settingsWindow handle: "null" or "open"
    dialogOpen,     \* the "Restart Required" message box is showing
    windows,        \* how many settings windows exist
    testPrints,     \* the last test print: the port it went to, whether it connected
    \* ---- the HTML agent
    serverPort,     \* PORT the express server listens on
    trayPort,       \* currentPort shown in the tray labels
    devices,        \* the printers the OS reports
    req,            \* per request: the POST /print handler's locals and effects
    \* ---- the PDF agent
    platform, pdfVariant, now, files, pdf

sharedVars == <<agent, store, settingsWindow, dialogOpen, windows, testPrints>>
htmlVars == <<serverPort, trayPort, devices, req>>
pdfVars == <<platform, pdfVariant, now, files, pdf>>
vars == <<agent, store, settingsWindow, dialogOpen, windows, testPrints,
          serverPort, trayPort, devices, req, platform, pdfVariant, now, files, pdf>>

(***************************************************************************)
(* HTTP responses: res.status(s).json(body); res.json(body) is status 200. *)
(***************************************************************************)
Response(status, success, text, printer) ==
    [status |-> status, success |-> success, text |-> text, printer |-> printer]

(***************************************************************************)
(* store.get(key) of electron-store.  port and printerName always have a   *)
(* value (the defaults); xOffsetMm is present only when the configuration  *)
(* file holds it.                                                          *)
(***************************************************************************)
StoreConfigs ==
    [port : Ports, printerName : ConfigNames]
        \cup [port : Ports, printerName : ConfigNames, xOffsetMm : Offsets]

\* store.get('xOffsetMm') ?? 0
X_OFFSET_MM == IF "xOffsetMm" \in DOMAIN store THEN store.xOffsetMm ELSE 0

(***************************************************************************)
(* The HTML agent's POST /print handler, src/unnamed/part_000:269-368.     *)
(***************************************************************************)
\* printers.find(...) found nothing
NoDevice == [name |-> Undefined, isDefault |-> FALSE]

InitReq ==
    [pc |-> "idle",
     html |-> Undefined,
     received |-> <<>>,         \* the configuration when the handler first read it
     storedPrinterName |-> Undefined,
     target |-> NoDevice,
     xOffsetMm |-> 0,
     tmp |-> "none",            \* the enumeration window: none, open, destroyed
     printWindow |-> "none",    \* the print window: none, open, destroyed
     css |-> <<>>,              \* the style overlays given to insertCSS
     scrollHeight |-> 0,        \* the content height the measuring script saw, px
     cssKey |-> Undefined,
     hung |-> FALSE,            \* the awaited operation will never settle
     responses |-> <<>>,        \* what was sent on res, in order
     jobs |-> <<>>,             \* the options of every webContents.print call
     trace |-> <<>>]            \* the handler's steps, in order

Min(S) == CHOOSE x \in S : \A y \in S : x <= y

\* A resolution that lets a default device stand in for the named one.
FindTargetFirstDefault(printers, storedPrinterName) ==
    LET idx == {i \in DOMAIN printers :
                   printers[i].isDefault \/ printers[i].name = storedPrinterName}
    IN  IF idx = {} THEN NoDevice ELSE printers[Min(idx)]

\* A resolution that settles for the first device listed.
FindTargetAny(printers, storedPrinterName) ==
    IF printers = <<>> THEN NoDevice ELSE printers[1]

\* printers.find(p => p.name === storedPrinterName), line 282
FindTarget(printers, storedPrinterName) ==
    LET idx == {i \in DOMAIN printers : printers[i].name = storedPrinterName}
    IN  IF idx = {} THEN NoDevice ELSE printers[Min(idx)]

\* The response without the return: the handler would go on.
FailNoReturn(q, status, error) ==
    [q EXCEPT !.responses = Append(@, Response(status, FALSE, error, Undefined)),
              !.trace = Append(@, "respond")]

\* return res.status(status).json({success: false, error})
Fail(q, status, error) ==
    [q EXCEPT !.pc = "done",
              !.responses = Append(@, Response(status, FALSE, error, Undefined)),
              !.trace = Append(@, "respond")]

\* An exit path that leaves the print window as it is.
ClosePrintWindowSkipped(q) == q

\* if (!printWindow.isDestroyed()) printWindow.close(), lines 360 and 365

ClosePrintWindow(q) ==
    IF q.printWindow = "open"
    THEN [q EXCEPT !.printWindow = "destroyed",
                   !.trace = Append(@, "printWindow.close")]
    ELSE q

\* catch (err) { close the print window if there is one; respond 500 err.message }
CatchBlock(q, message) ==
    Fail(ClosePrintWindow(q), 500, message)

\* The message of the error an awaited operation rejects with.
RejectMessage(pc) ==
    CASE pc = "enumerating" -> "Failed to enumerate printers"
      [] pc = "loading" -> "ERR_FAILED (-2) loading the document"
      [] pc = "stabilising" -> "Script failed to execute"
      [] pc = "measuring" -> "Script failed to execute"
      [] OTHER -> "insertCSS failed"

\* The awaits of the handler, in order (lines 280, 304, 311, 322, 337, 340).
AwaitPcs == {"enumerating", "loading", "stabilising", "insertingOverlay",
             "insertingPadding", "measuring"}

\* The operations the handler waits on that a document can keep from settling.
HangPcs == {"loading", "stabilising", "printing"}

\* A validation that takes only an absent html for missing.
ValidateAbsentOnly(html) == html = Undefined

\* if (!html), line 271
Validate(html) == Falsy(html)

\* A configuration check that lets every stored name through.
UnconfiguredNever(storedPrinterName) == FALSE

\* if (!storedPrinterName), line 274
Unconfigured(storedPrinterName) == Falsy(storedPrinterName)

\* The POST /print handler from its start up to await getPrintersAsync(), lines
\* 270-280: the request q after it.
StartPrint(q, html) ==
    LET q0 == [q EXCEPT !.html = html, !.trace = Append(@, "validate")]
        q1 == [q0 EXCEPT !.received = <<store>>,
                         !.storedPrinterName = store.printerName,
                         !.trace = Append(@, "store.get:printerName")]
    IN  IF Validate(html)
        THEN Fail(q0, 400, "Missing html in request body")
        ELSE IF Unconfigured(q1.storedPrinterName)
        THEN Fail(q1, 500, "No printer configured.")
        ELSE [q1 EXCEPT !.tmp = "open",
                        !.pc = "enumerating",
                        !.trace = Append(@, "getPrintersAsync")]

\* POST /print arrives from a client of the server.
Receive(r, html) ==
    /\ agent = "html"
    /\ req[r].pc = "idle"
    /\ \A r0 \in DOMAIN req : r0 < r => req[r0].pc # "idle"   \* numbered as they arrive
    /\ req' = [req EXCEPT ![r] = StartPrint(@, html)]
    /\ UNCHANGED <<sharedVars, serverPort, trayPort, devices, pdfVars>>

\* testPrint() from the tray menu, lines 385-427: fetch POST
\* http://localhost:${store.get("port")}/print with the test page.  The request
\* reaches the handler when the server listens on that port; otherwise the
\* connection fails and an error box is shown.
TestPrint(r) ==
    /\ agent = "html"
    /\ req[r].pc = "idle"
    /\ \A r0 \in DOMAIN req : r0 < r => req[r0].pc # "idle"
    /\ testPrints' = <<[port |-> store.port, connected |-> store.port = serverPort]>>
    /\ req' = IF store.port = serverPort
              THEN [req EXCEPT ![r] = StartPrint(@, "<div>Test Print</div>")]
              ELSE req
    /\ UNCHANGED <<agent, store, settingsWindow, dialogOpen, windows,
                   serverPort, trayPort, devices, pdfVars>>

\* getPrintersAsync() resolved: lines 281-304, up to await loadURL().
EnumerateResolve(r) ==
    /\ agent = "html"
    /\ req[r].pc = "enumerating"
    /\ LET q0 == [req[r] EXCEPT !.tmp = "destroyed",
                                !.target = FindTarget(devices, req[r].storedPrinterName),
                                !.trace = Append(@, "resolve")]
       IN  req' = [req EXCEPT ![r] =
                IF q0.target = NoDevice
                THEN Fail(q0, 404,
                          "Printer \"" \o q0.storedPrinterName \o "\" not found.")
                ELSE [q0 EXCEPT !.xOffsetMm = X_OFFSET_MM,
                                !.printWindow = "open",
                                !.pc = "loading",
                                !.trace = @ \o <<"store.get:xOffsetMm",
                                                 "new:printWindow", "loadURL">>]]
    /\ UNCHANGED <<sharedVars, serverPort, trayPort, devices, pdfVars>>

\* An awaited operation rejected (or threw): the catch block, lines 364-367.
AwaitReject(r) ==
    /\ agent = "html"
    /\ req[r].pc \in AwaitPcs
    /\ ~req[r].hung
    /\ req' = [req EXCEPT ![r] = CatchBlock(req[r], RejectMessage(req[r].pc))]
    /\ UNCHANGED <<sharedVars, serverPort, trayPort, devices, pdfVars>>

\* The awaited operation never settles: the document never finishes loading, an
\* image of the payload fires neither load nor error, or the driver never calls
\* the print completion callback.
NeverSettles(r) ==
    /\ agent = "html"
    /\ req[r].pc \in HangPcs
    /\ ~req[r].hung
    /\ req' = [req EXCEPT ![r].hung = TRUE]
    /\ UNCHANGED <<sharedVars, serverPort, trayPort, devices, pdfVars>>

\* A handler that goes from the loaded document straight to the overlay.
LoadResolveSkipsStabilise(r) ==
    /\ agent = "html"
    /\ req[r].pc = "loading"
    /\ ~req[r].hung
    /\ req' = [req EXCEPT ![r].pc = "insertingOverlay",
                          ![r].trace = @ \o <<"loaded", "setZoomFactor",
                                              "insertCSS:overlay">>]
    /\ UNCHANGED <<sharedVars, serverPort, trayPort, devices, pdfVars>>

\* loadURL() resolved: lines 306-319, up to await executeJavaScript(stabilise).
LoadResolve(r) ==
    /\ agent = "html"
    /\ req[r].pc = "loading"
    /\ ~req[r].hung
    /\ req' = [req EXCEPT ![r].pc = "stabilising",
                          ![r].trace = @ \o <<"loaded", "setZoomFactor", "stabilise">>]
    /\ UNCHANGED <<sharedVars, serverPort, trayPort, devices, pdfVars>>

\* The constants of lines 286-287.
PAGE_WIDTH_MICRONS == 80000
PRINTABLE_WIDTH_MM == 72

\* The @media print rules of the overlay, lines 323-333, lengths in mm.
PAGE_WIDTH_MM == 80
MARGIN_MM == 4

OverlayCss(xOffsetMm) ==
    [pageWidth |-> PAGE_WIDTH_MM,
     width |-> PRINTABLE_WIDTH_MM,
     marginLeft |-> MARGIN_MM + xOffsetMm,     \* calc(4mm + ${X_OFFSET_MM}mm)
     marginRight |-> MARGIN_MM]

\* The stabilisation script resolved: line 322, up to await insertCSS(overlay).
StabiliseResolve(r) ==
    /\ agent = "html"
    /\ req[r].pc = "stabilising"
    /\ ~req[r].hung
    /\ req' = [req EXCEPT ![r].pc = "insertingOverlay",
                          ![r].css = Append(@, OverlayCss(req[r].xOffsetMm)),
                          ![r].trace = @ \o <<"stabilised", "insertCSS:overlay">>]
    /\ UNCHANGED <<sharedVars, serverPort, trayPort, devices, pdfVars>>

\* insertCSS(overlay) resolved with its key: line 337, up to await insertCSS(padding).
OverlayResolve(r) ==
    /\ agent = "html"
    /\ req[r].pc = "insertingOverlay"
    /\ req' = [req EXCEPT ![r].pc = "insertingPadding",
                          ![r].cssKey = "css-key",
                          ![r].trace = @ \o <<"overlay", "insertCSS:padding">>]
    /\ UNCHANGED <<sharedVars, serverPort, trayPort, devices, pdfVars>>

\* insertCSS(padding) resolved: line 340, up to await executeJavaScript(measure).
PaddingResolve(r) ==
    /\ agent = "html"
    /\ req[r].pc = "insertingPadding"
    /\ req' = [req EXCEPT ![r].pc = "measuring",
                          ![r].trace = @ \o <<"padding", "measure">>]
    /\ UNCHANGED <<sharedVars, serverPort, trayPort, devices, pdfVars>>

\* Math.ceil(a / b) for a >= 0, b > 0
CeilDiv(a, b) == (a + b - 1) \div b

Max(a, b) == IF a >= b THEN a ELSE b

MIN_HEIGHT_MICRONS == 120000

\* A conversion that rounds down.
HeightMicronsFloor(px) == Max(MIN_HEIGHT_MICRONS, (px * 25400) \div 96)

\* The measuring script, lines 341-346: px / 96 in * 25.4 mm * 1000 microns.
\* Math.ceil of the double px / 96 * 25.4 * 1000 is the exact ceiling of
\* px * 25400 / 96 for every px up to 200000, the heights a receipt can have.
HeightMicrons(px) == Max(MIN_HEIGHT_MICRONS, CeilDiv(px * 25400, 96))

\* The options of webContents.print, lines 350-357.
PrintOptions(q, heightMicrons) ==
    [silent |-> TRUE,
     deviceName |-> q.target.name,
     width |-> PAGE_WIDTH_MICRONS,
     height |-> heightMicrons]

\* The measuring script resolved with the height: lines 349-363, print is called.
MeasureResolve(r, px) ==
    /\ agent = "html"
    /\ req[r].pc = "measuring"
    /\ req' = [req EXCEPT ![r].pc = "printing",
                          ![r].scrollHeight = px,
                          ![r].jobs = Append(@, PrintOptions(req[r], HeightMicrons(px))),
                          ![r].trace = @ \o <<"measured", "print">>]
    /\ UNCHANGED <<sharedVars, serverPort, trayPort, devices, pdfVars>>

\* The driver's reason passed on as it came.
FailureTextRaw(failureReason) == failureReason

\* error: failureReason || "Print failed"
FailureText(failureReason) == OrElse(failureReason, "Print failed")

\* The print completion callback, lines 357-363.
PrintCompletion(q, success, failureReason) ==
    LET q0 == IF ~Falsy(q.cssKey)
              THEN [q EXCEPT !.trace = Append(@, "removeInsertedCSS")]
              ELSE q
        q1 == ClosePrintWindow(q0)
    IN  IF success
        THEN [q1 EXCEPT !.pc = "done",
                        !.responses = Append(@, Response(200, TRUE,
                                  "Bill sent to printer successfully", Undefined)),
                        !.trace = Append(@, "respond")]
        ELSE Fail(q1, 500, FailureText(failureReason))

PrintCallback(r, success, failureReason) ==
    /\ agent = "html"
    /\ req[r].pc = "printing"
    /\ ~req[r].hung
    /\ req' = [req EXCEPT ![r] = PrintCompletion(req[r], success, failureReason)]
    /\ UNCHANGED <<sharedVars, serverPort, trayPort, devices, pdfVars>>

(***************************************************************************)
(* The HTML agent's GET /printers handler, src/unnamed/part_000:243-266.   *)
(***************************************************************************)
\* GET /printers arrives: lines 244-246, up to await getPrintersAsync().
GetPrinters(r) ==
    /\ agent = "html"
    /\ req[r].pc = "idle"
    /\ \A r0 \in DOMAIN req : r0 < r => req[r0].pc # "idle"   \* numbered as they arrive
    /\ req' = [req EXCEPT ![r].tmp = "open",
                          ![r].pc = "listing",
                          ![r].trace = Append(@, "getPrintersAsync")]
    /\ UNCHANGED <<sharedVars, serverPort, trayPort, devices, pdfVars>>

\* getPrintersAsync() resolved: tempWindow.close() and the list, lines 247-258.
ListResolve(r) ==
    /\ agent = "html"
    /\ req[r].pc = "listing"
    /\ req' = [req EXCEPT ![r].tmp = "destroyed",
                          ![r].pc = "done",
                          ![r].responses = Append(@, Response(200, TRUE, "printers", Undefined)),
                          ![r].trace = Append(@, "respond")]
    /\ UNCHANGED <<sharedVars, serverPort, trayPort, devices, pdfVars>>

\* getPrintersAsync() rejected: the catch block, lines 259-265.
ListReject(r) ==
    /\ agent = "html"
    /\ req[r].pc = "listing"
    /\ req' = [req EXCEPT ![r] = Fail(@, 500, RejectMessage("enumerating"))]
    /\ UNCHANGED <<sharedVars, serverPort, trayPort, devices, pdfVars>>

(***************************************************************************)
(* The PDF agent's POST /print handler, src/main.js:248-299 (variant 1,    *)
(* printer from the body or the store) and 572-623 (variant 2, printer     *)
(* from the body only), with silentPrint and savePDF.                      *)
(***************************************************************************)
Platforms == {"win32", "darwin", "linux"}
PdfBodies == {Undefined, "", "JVBERi0x"}
BodyPrinters == {Undefined, "POS-58"}
LoadErrors == {"ERR_FILE_NOT_FOUND"}

InitPdfReq ==
    [pc |-> "idle",
     pdfBase64 |-> Undefined,
     printerName |-> Undefined,
     pdfPath |-> Undefined,
     cleanup |-> "none",       \* fs.unlinkSync(pdfPath): none, removed, failed
     printWindow |-> "none",   \* silentPrint's window: none, open, destroyed
     promise |-> "none",       \* silentPrint's promise: none, pending, resolved, rejected
     loads |-> 0,              \* did-finish-load events delivered
     timers |-> 0,             \* setTimeout callbacks not yet run
     callbacks |-> 0,          \* print completion callbacks not yet invoked
     hung |-> FALSE,           \* no further event of the platform will come
     uncaught |-> 0,           \* exceptions thrown out of an event callback
     responses |-> <<>>,
     jobs |-> <<>>]

\* path.join(os.tmpdir(), `receipt_${Date.now()}.pdf`)
TempPath(t) == "receipt_" \o ToString(t) \o ".pdf"

\* fs.writeFileSync(path, buffer): creates or overwrites; the content is r's payload.
WriteFile(fs, path, r) ==
    [p \in DOMAIN fs \cup {path} |-> IF p = path THEN r ELSE fs[p]]

\* fs.unlinkSync(path): removes the file; fails (ENOENT, EPERM, EBUSY) otherwise.
Unlink(fs, path, ok) ==
    IF ok /\ path \in DOMAIN fs
    THEN [p \in DOMAIN fs \ {path} |-> fs[p]]
    ELSE fs

\* catch (error): res.status(500).json({success: false, error: error.message})
PdfFail(q, message) ==
    [q EXCEPT !.pc = "done",
              !.responses = Append(@, Response(500, FALSE, message, Undefined))]

\* res.json({success: true, message, printer, duration}); variant 2 names no printer.
PdfSucceed(q) ==
    [q EXCEPT !.pc = "done",
              !.responses = Append(@, Response(200, TRUE, "Bill printed successfully",
                                IF pdfVariant = 1 THEN q.printerName ELSE Undefined))]

\* POST /print arrives: validation, savePDF and the start of silentPrint.  The
\* awaits on the way (await savePDF) yield to microtasks only.
ReceivePdf(r, pdfBase64, bodyPrinter) ==
    /\ agent = "pdf"
    /\ pdf[r].pc = "idle"
    /\ \A r0 \in DOMAIN pdf : r0 < r => pdf[r0].pc # "idle"   \* numbered as they arrive
    /\ LET printerName == IF pdfVariant = 1
                           THEN OrElse(bodyPrinter, store.printerName)
                           ELSE bodyPrinter
           path == TempPath(now)
           q0 == [pdf[r] EXCEPT !.pdfBase64 = pdfBase64]
       IN  IF Falsy(pdfBase64)
           THEN /\ pdf' = [pdf EXCEPT ![r] =
                              PdfFail(q0, "Missing pdfBase64 in request body")]
                /\ UNCHANGED files
           ELSE IF pdfVariant = 2 /\ Falsy(bodyPrinter)
           THEN /\ pdf' = [pdf EXCEPT ![r] =
                              PdfFail(q0, "Missing printerName in request body")]
                /\ UNCHANGED files
           ELSE /\ files' = WriteFile(files, path, r)
                /\ pdf' = [pdf EXCEPT ![r] =
                      [q0 EXCEPT !.printerName = printerName,
                                !.pdfPath = path,
                                !.promise = "pending",
                                !.printWindow = IF platform = "win32" THEN "open" ELSE "none",
                                !.pc = IF platform = "win32" THEN "loading" ELSE "lp"]]
    /\ UNCHANGED <<sharedVars, htmlVars, platform, pdfVariant, now>>

\* Date.now() moves on.
Tick ==
    /\ agent = "pdf"
    /\ now < MaxClock
    /\ now' = now + 1
    /\ UNCHANGED <<sharedVars, htmlVars, platform, pdfVariant, files, pdf>>

\* Lines 273-279: try { fs.unlinkSync(pdfPath) } catch { console.warn(...) }
Cleanup(q, fs, unlinkOk) ==
    LET fs1 == Unlink(fs, q.pdfPath, unlinkOk)
    IN  <<[q EXCEPT !.cleanup = IF fs1 = fs THEN "failed" ELSE "removed"], fs1>>

\* A handler whose unlink is not wrapped in try/catch: its error reaches the
\* outer catch block.
SettleCleanupThrows(q, fs, outcome, message, unlinkOk) ==
    IF q.promise # "pending"
    THEN <<q, fs>>
    ELSE IF outcome = "resolved"
    THEN LET c == Cleanup([q EXCEPT !.promise = "resolved"], fs, unlinkOk)
         IN  IF c[1].cleanup = "failed"
             THEN <<PdfFail(c[1], "ENOENT: no such file or directory, unlink"), c[2]>>
             ELSE <<PdfSucceed(c[1]), c[2]>>
    ELSE <<PdfFail([q EXCEPT !.promise = "rejected"], message), fs>>

\* The handler after await silentPrint(): cleanup and the success response (lines
\* 273-289) when the promise resolved, the catch block (291-298) when it
\* rejected.  resolve and reject do nothing to a promise already settled.
\* <<the request, the file system>>
Settle(q, fs, outcome, message, unlinkOk) ==
    IF q.promise # "pending"
    THEN <<q, fs>>
    ELSE IF outcome = "resolved"
    THEN LET c == Cleanup([q EXCEPT !.promise = "resolved"], fs, unlinkOk)
         IN  <<PdfSucceed(c[1]), c[2]>>
    ELSE <<PdfFail([q EXCEPT !.promise = "rejected"], message), fs>>

\* webContents 'did-finish-load': setTimeout(print, 1000), lines 330-351.
DidFinishLoad(r) ==
    /\ agent = "pdf"
    /\ pdf[r].printWindow = "open"
    /\ ~pdf[r].hung
    /\ pdf[r].loads < MaxLoadEvents
    /\ pdf' = [pdf EXCEPT ![r].loads = @ + 1, ![r].timers = @ + 1]
    /\ UNCHANGED <<sharedVars, htmlVars, platform, pdfVariant, now, files>>

\* printWindow.close() with no isDestroyed() test: throws on a destroyed window.
\* <<the window after the call, whether the call threw>>
CloseWindow(w) == <<"destroyed", w = "destroyed">>

\* webContents 'did-fail-load': close the window and reject, lines 353-356.
DidFailLoad(r, errorDescription) ==
    /\ agent = "pdf"
    /\ pdf[r].printWindow = "open"
    /\ ~pdf[r].hung
    /\ LET q0 == [pdf[r] EXCEPT !.printWindow = CloseWindow(@)[1]]
           s == Settle(q0, files, "rejected",
                       "Failed to load PDF: " \o errorDescription, TRUE)
       IN  /\ pdf' = [pdf EXCEPT ![r] = s[1]]
           /\ files' = s[2]
    /\ UNCHANGED <<sharedVars, htmlVars, platform, pdfVariant, now>>

\* The options of webContents.print, lines 333-340.
PdfPrintOptions(q) == [silent |-> TRUE, deviceName |-> q.printerName]

\* The timer set by did-finish-load runs: webContents.print(...), which throws if
\* the window was destroyed in the meantime.
TimerFires(r) ==
    /\ agent = "pdf"
    /\ pdf[r].timers > 0
    /\ pdf' = [pdf EXCEPT ![r] =
           IF @.printWindow = "open"
           THEN [@ EXCEPT !.timers = @ - 1,
                          !.jobs = Append(@, PdfPrintOptions(pdf[r])),
                          !.callbacks = @ + 1]
           ELSE [@ EXCEPT !.timers = @ - 1, !.uncaught = @ + 1]]
    /\ UNCHANGED <<sharedVars, htmlVars, platform, pdfVariant, now, files>>

\* The print completion callback, lines 340-349: close the window, then reject
\* or resolve; the handler continues in the same turn.
PdfPrintCallback(r, success, failureReason, unlinkOk) ==
    /\ agent = "pdf"
    /\ pdf[r].callbacks > 0
    /\ ~pdf[r].hung
    /\ LET c == CloseWindow(pdf[r].printWindow)
           q0 == [pdf[r] EXCEPT !.callbacks = @ - 1, !.printWindow = c[1]]
           s == IF success
                THEN Settle(q0, files, "resolved", "", unlinkOk)
                ELSE Settle(q0, files, "rejected", FailureText(failureReason), unlinkOk)
       IN  IF c[2]
           THEN /\ pdf' = [pdf EXCEPT ![r] = [q0 EXCEPT !.uncaught = @ + 1]]
                /\ UNCHANGED files
           ELSE /\ pdf' = [pdf EXCEPT ![r] = s[1]]
                /\ files' = s[2]
    /\ UNCHANGED <<sharedVars, htmlVars, platform, pdfVariant, now>>

\* The platform's message for a failed lp, lines 364-365 and 373-374.
LpFailureText(os) ==
    (IF os = "darwin" THEN "macOS" ELSE "Linux") \o " print failed: Command failed: lp"

\* An lp whose exit code is not looked at: the promise resolves.
LpExitIgnoresCode(r, code, unlinkOk) ==
    /\ agent = "pdf"
    /\ pdf[r].pc = "lp"
    /\ ~pdf[r].hung
    /\ LET s == Settle(pdf[r], files, "resolved", "", unlinkOk)
       IN  /\ pdf' = [pdf EXCEPT ![r] = s[1]]
           /\ files' = s[2]
    /\ UNCHANGED <<sharedVars, htmlVars, platform, pdfVariant, now>>

\* execPromise(lp ...) settles: exit code 0 resolves, any other rejects (359-376).
LpExit(r, code, unlinkOk) ==
    /\ agent = "pdf"
    /\ pdf[r].pc = "lp"
    /\ ~pdf[r].hung
    /\ LET s == IF code = 0
                THEN Settle(pdf[r], files, "resolved", "", unlinkOk)
                ELSE Settle(pdf[r], files, "rejected", LpFailureText(platform), unlinkOk)
       IN  /\ pdf' = [pdf EXCEPT ![r] = s[1]]
           /\ files' = s[2]
    /\ UNCHANGED <<sharedVars, htmlVars, platform, pdfVariant, now>>

\* No event will come: the document fires neither did-finish-load nor
\* did-fail-load, the driver never calls back, or lp never exits.
PdfNeverSettles(r) ==
    /\ agent = "pdf"
    /\ pdf[r].promise = "pending"
    /\ ~pdf[r].hung
    /\ pdf' = [pdf EXCEPT ![r].hung = TRUE]
    /\ UNCHANGED <<sharedVars, htmlVars, platform, pdfVariant, now, files>>

(***************************************************************************)
(* The settings window and the save-settings handler,                      *)
(* src/unnamed/part_000:149-213.                                           *)
(***************************************************************************)
\* An openSettings() that creates a window every time.
OpenSettingsAlwaysCreates ==
    /\ agent = "html"
    /\ settingsWindow' = "open"
    /\ windows' = windows + 1
    /\ UNCHANGED <<agent, store, dialogOpen, testPrints, htmlVars, pdfVars>>

\* openSettings(): focus the window if there is one, else create it.
OpenSettings ==
    /\ agent = "html"
    /\ settingsWindow' = "open"
    /\ windows' = IF settingsWindow = "null" THEN windows + 1 ELSE windows
    /\ UNCHANGED <<agent, store, dialogOpen, testPrints, htmlVars, pdfVars>>

\* The user closes the settings window: its 'closed' handler clears the handle.
SettingsClosed ==
    /\ agent = "html"
    /\ settingsWindow = "open"
    /\ ~dialogOpen
    /\ settingsWindow' = "null"
    /\ windows' = windows - 1
    /\ UNCHANGED <<agent, store, dialogOpen, testPrints, htmlVars, pdfVars>>

\* ipcMain.on("save-settings"), sent by the page of a settings window.
SaveSettings(port, printerName) ==
    /\ agent = "html"
    /\ windows >= 1
    /\ ~dialogOpen
    /\ store' = [store EXCEPT !.port = port, !.printerName = printerName]
    /\ trayPort' = store'.port
    /\ IF store.port # port
       THEN dialogOpen' = TRUE /\ UNCHANGED <<settingsWindow, windows>>
       ELSE settingsWindow' = "null" /\ windows' = windows - 1 /\ UNCHANGED dialogOpen
    /\ UNCHANGED <<agent, testPrints, serverPort, devices, req, pdfVars>>

\* The configuration file is rewritten with a horizontal offset.  The program has
\* no handler that sets xOffsetMm: the file is where it comes from, and
\* store.get reads the file on every call.
ConfigFileEdited(xOffsetMm) ==
    /\ agent = "html"
    /\ store' = [port |-> store.port, printerName |-> store.printerName,
                 xOffsetMm |-> xOffsetMm]
    /\ store' # store
    /\ UNCHANGED <<agent, settingsWindow, dialogOpen, windows, testPrints, htmlVars, pdfVars>>

\* "Restart Now": app.relaunch(); app.quit().  The process ends with its windows
\* and the requests it was serving; the new instance builds its tray menu and
\* starts its server from the stored configuration (lines 38-57, 95-96, 215-216).
DialogRestartNow ==
    /\ agent = "html"
    /\ dialogOpen
    /\ dialogOpen' = FALSE
    /\ settingsWindow' = "null"
    /\ windows' = 0
    /\ testPrints' = <<>>
    /\ serverPort' = store.port
    /\ trayPort' = store.port
    /\ req' = [r \in DOMAIN req |-> InitReq]
    /\ UNCHANGED <<agent, store, devices, pdfVars>>

\* "Later"
DialogLater ==
    /\ agent = "html"
    /\ dialogOpen
    /\ dialogOpen' = FALSE
    /\ UNCHANGED <<agent, store, settingsWindow, windows, testPrints, htmlVars, pdfVars>>

(***************************************************************************)
(* The HTML agent.                                                         *)
(***************************************************************************)
\* new Store({defaults: {port: 4000, printerName: "XP-80C"}}), lines 20-25; the
\* configuration file may also hold xOffsetMm, which no handler writes.
DefaultConfigs ==
    {c \in StoreConfigs : c.port = 4000 /\ c.printerName = "XP-80C"}

InitHtml ==
    /\ agent = "html"
    /\ store \in DefaultConfigs
    /\ settingsWindow = "null"
    /\ dialogOpen = FALSE
    /\ windows = 0
    /\ testPrints = <<>>
    /\ serverPort = store.port
    /\ trayPort = store.port
    /\ devices \in DeviceLists
    /\ req = [r \in Reqs |-> InitReq]
    /\ platform = "win32"
    /\ pdfVariant = 1
    /\ now = 0
    /\ files = <<>>
    /\ pdf = [r \in Reqs |-> InitPdfReq]

NextHtml ==
    \/ \E r \in DOMAIN req, html \in HtmlBodies : Receive(r, html)
    \/ \E r \in DOMAIN req : EnumerateResolve(r)
    \/ \E r \in DOMAIN req : AwaitReject(r)
    \/ \E r \in DOMAIN req : NeverSettles(r)
    \/ \E r \in DOMAIN req : LoadResolve(r)
    \/ \E r \in DOMAIN req : StabiliseResolve(r)
    \/ \E r \in DOMAIN req : OverlayResolve(r)
    \/ \E r \in DOMAIN req : PaddingResolve(r)
    \/ \E r \in DOMAIN req, px \in ScrollHeights : MeasureResolve(r, px)
    \/ \E r \in DOMAIN req, success \in BOOLEAN, reason \in FailureReasons :
           PrintCallback(r, success, reason)
    \/ OpenSettings
    \/ SettingsClosed
    \/ \E name \in ConfigNames : SaveSettings(store.port, name)

(***************************************************************************)
(* The PDF agent.                                                          *)
(***************************************************************************)
InitPdf ==
    /\ agent = "pdf"
    /\ store \in {c \in StoreConfigs : c.port = 4000 /\ "xOffsetMm" \notin DOMAIN c}
    /\ settingsWindow = "null"
    /\ dialogOpen = FALSE
    /\ windows = 0
    /\ testPrints = <<>>
    /\ serverPort = store.port
    /\ trayPort = store.port
    /\ devices = <<>>
    /\ req = [r \in Reqs |-> InitReq]
    /\ platform \in Platforms
    /\ pdfVariant \in {1, 2}
    /\ now = 0
    /\ files = <<>>
    /\ pdf = [r \in Reqs |-> InitPdfReq]

NextPdf ==
    \/ \E r \in DOMAIN pdf, pdfBase64 \in PdfBodies, bodyPrinter \in BodyPrinters :
           ReceivePdf(r, pdfBase64, bodyPrinter)
    \/ Tick
    \/ \E r \in DOMAIN pdf : DidFinishLoad(r)
    \/ \E r \in DOMAIN pdf, e \in LoadErrors : DidFailLoad(r, e)
    \/ \E r \in DOMAIN pdf : TimerFires(r)
    \/ \E r \in DOMAIN pdf, success \in BOOLEAN, reason \in FailureReasons, ok \in BOOLEAN :
           PdfPrintCallback(r, success, reason, ok)
    \/ \E r \in DOMAIN pdf, code \in {0, 1}, ok \in BOOLEAN : LpExit(r, code, ok)
    \/ \E r \in DOMAIN pdf : PdfNeverSettles(r)

Init == InitHtml \/ InitPdf

Next == NextHtml \/ NextPdf

Spec == Init /\ [][Next]_vars

(***************************************************************************)
(* The HTML agent while its configuration file is rewritten from outside,  *)
(* the one way xOffsetMm gets a value.                                     *)
(***************************************************************************)
NextConfigFile ==
    \/ NextHtml
    \/ \E x \in Offsets : ConfigFileEdited(x)

\* It starts with no offset configured and, resolution not being what the
\* rewrite touches, with one printer at most.
InitConfigFile ==
    /\ InitHtml
    /\ "xOffsetMm" \notin DOMAIN store
    /\ Len(devices) <= 1

SpecConfigFile == InitConfigFile /\ [][NextConfigFile]_vars

(***************************************************************************)
(* The HTML agent with its settings window saving any port, the restart    *)
(* dialog, and test prints from the tray menu.                             *)
(***************************************************************************)
NextSettings ==
    \/ NextHtml
    \/ \E port \in Ports, name \in ConfigNames : SaveSettings(port, name)
    \/ DialogRestartNow
    \/ DialogLater
    \/ \E r \in DOMAIN req : TestPrint(r)

\* The default configuration and its printer installed; other names come from
\* the settings window.
InitSettings ==
    /\ agent = "html"
    /\ store = [port |-> 4000, printerName |-> "XP-80C"]
    /\ settingsWindow = "null"
    /\ dialogOpen = FALSE
    /\ windows = 0
    /\ testPrints = <<>>
    /\ serverPort = store.port
    /\ trayPort = store.port
    /\ devices = <<[name |-> "XP-80C", isDefault |-> TRUE]>>
    /\ req = [r \in 1..MaxSettingsReqs |-> InitReq]
    /\ platform = "win32"
    /\ pdfVariant = 1
    /\ now = 0
    /\ files = <<>>
    /\ pdf = [r \in Reqs |-> InitPdfReq]

SpecSettings == InitSettings /\ [][NextSettings]_vars

(***************************************************************************)
(* The HTML agent serving GET /printers next to POST /print.               *)
(***************************************************************************)
NextEnumeration ==
    \/ NextHtml
    \/ \E r \in DOMAIN req : GetPrinters(r)
    \/ \E r \in DOMAIN req : ListResolve(r)
    \/ \E r \in DOMAIN req : ListReject(r)

\* One printer at most, no offset: neither matters to the enumeration window.
InitEnumeration ==
    /\ InitHtml
    /\ "xOffsetMm" \notin DOMAIN store
    /\ Len(devices) <= 1

SpecEnumeration == InitEnumeration /\ [][NextEnumeration]_vars

(***************************************************************************)
(* The steps of one request that the program or its platform takes next,   *)
(* leaving out the choice that the awaited event never comes.              *)
(***************************************************************************)
HtmlStep(r) ==
    \/ EnumerateResolve(r)
    \/ AwaitReject(r)
    \/ LoadResolve(r)
    \/ StabiliseResolve(r)
    \/ OverlayResolve(r)
    \/ PaddingResolve(r)
    \/ \E px \in ScrollHeights : MeasureResolve(r, px)
    \/ \E success \in BOOLEAN, reason \in FailureReasons : PrintCallback(r, success, reason)

PdfStep(r) ==
    \/ DidFinishLoad(r)
    \/ \E e \in LoadErrors : DidFailLoad(r, e)
    \/ TimerFires(r)
    \/ \E success \in BOOLEAN, reason \in FailureReasons, ok \in BOOLEAN :
           PdfPrintCallback(r, success, reason, ok)
    \/ \E code \in {0, 1}, ok \in BOOLEAN : LpExit(r, code, ok)

\* Helpers of the properties below, written on the state alone.
HasEvent(q, e) == \E i \in DOMAIN q.trace : q.trace[i] = e
Enumerated(q) == q.tmp = "destroyed"
NameListed(name) == \E i \in DOMAIN devices : devices[i].name = name
DefaultListed == \E i \in DOMAIN devices : devices[i].isDefault
Responded(q) == q.responses # <<>>
\* Every occurrence of step b in the handler's trace comes after a step a.
Precedes(q, a, b) ==
    \A j \in DOMAIN q.trace :
        q.trace[j] = b => \E i \in 1..(j - 1) : q.trace[i] = a

(***************************************************************************)
(* C1.  Render-session cleanup on every exit path: whenever a response has *)
(* been sent for a request (of either agent), that request's print window  *)
(* is not open: it was never created, or it has been closed.               *)
(***************************************************************************)
C1_WindowClosedWhenResponded ==
    /\ \A r \in DOMAIN req : Responded(req[r]) => req[r].printWindow # "open"
    /\ \A r \in DOMAIN pdf : Responded(pdf[r]) => pdf[r].printWindow # "open"

\* A request whose document failed to load: answered 500 through the catch
\* block, its print window created and closed.
C1_Witness ==
    \E r \in DOMAIN req :
        /\ Responded(req[r])
        /\ req[r].responses[1].status = 500
        /\ HasEvent(req[r], "new:printWindow")
        /\ req[r].printWindow = "destroyed"

(***************************************************************************)
(* C2.  Temporary-file cleanup on every exit path (PDF agent): once the    *)
(* response of a request that wrote a temporary PDF has been sent, the     *)
(* file is gone, unless an unlink was attempted and failed.                *)
(***************************************************************************)
C2_TempFileRemovedWhenResponded ==
    \A r \in DOMAIN pdf :
        (Responded(pdf[r]) /\ pdf[r].pdfPath # Undefined /\ pdf[r].cleanup # "failed")
            => pdf[r].pdfPath \notin DOMAIN files

(***************************************************************************)
(* C3.  Bounded response: a request that passed validation and has not     *)
(* been answered is never stuck; some step of its handler, or an event     *)
(* its handler waits for, can still take it on towards its response.       *)
(***************************************************************************)
C3_NeverStuck ==
    /\ \A r \in DOMAIN req : req[r].pc \notin {"idle", "done"} => ENABLED HtmlStep(r)
    /\ \A r \in DOMAIN pdf : pdf[r].pc \notin {"idle", "done"} => ENABLED PdfStep(r)

(***************************************************************************)
(* C4.  Exactly one outcome per request: no request of either agent is     *)
(* ever sent more than one response, whatever events follow the first.     *)
(***************************************************************************)
C4_AtMostOneResponse ==
    /\ \A r \in DOMAIN req : Len(req[r].responses) <= 1
    /\ \A r \in DOMAIN pdf : Len(pdf[r].responses) <= 1

\* Two load-finished events, two print calls, both completion callbacks invoked:
\* one response.
C4_Witness ==
    \E r \in DOMAIN pdf :
        /\ Len(pdf[r].jobs) = 2
        /\ pdf[r].callbacks = 0
        /\ Len(pdf[r].responses) = 1

(***************************************************************************)
(* C5.  Concurrent requests do not share the materialised document: two    *)
(* PDF requests in flight at the same time have distinct temporary paths.  *)
(***************************************************************************)
C5_DistinctTempPaths ==
    \A r1, r2 \in DOMAIN pdf :
        (r1 # r2 /\ pdf[r1].pc \in {"loading", "lp"} /\ pdf[r2].pc \in {"loading", "lp"})
            => pdf[r1].pdfPath # pdf[r2].pdfPath

(***************************************************************************)
(* C6.  Default fallback: when no enumerated device has the configured     *)
(* name but one is flagged default, the request resolves to a default      *)
(* device and is not answered 404.                                         *)
(***************************************************************************)
C6_DefaultFallback ==
    \A r \in DOMAIN req :
        (Enumerated(req[r]) /\ ~NameListed(req[r].storedPrinterName) /\ DefaultListed)
            => /\ req[r].target.isDefault
               /\ \A i \in DOMAIN req[r].responses : req[r].responses[i].status # 404

(***************************************************************************)
(* C7.  Printer not found: when the enumerated devices hold neither the    *)
(* configured name nor a default, the request is answered 404 with an      *)
(* error naming the requested printer, and it has no print window and no   *)
(* print job.                                                              *)
(***************************************************************************)
C7_PrinterNotFound ==
    \A r \in DOMAIN req :
        (Enumerated(req[r]) /\ ~NameListed(req[r].storedPrinterName) /\ ~DefaultListed)
            => /\ req[r].responses =
                     <<Response(404, FALSE,
                         "Printer \"" \o req[r].storedPrinterName \o "\" not found.",
                         Undefined)>>
               /\ req[r].printWindow = "none"
               /\ ~HasEvent(req[r], "new:printWindow")
               /\ req[r].jobs = <<>>

\* Devices are listed, none with the configured name, none default: 404.
C7_Witness ==
    \E r \in DOMAIN req :
        /\ Enumerated(req[r])
        /\ devices # <<>>
        /\ ~NameListed(req[r].storedPrinterName)
        /\ ~DefaultListed
        /\ req[r].pc = "done"

(***************************************************************************)
(* C8.  Exact match wins: when an enumerated device has the configured     *)
(* name, the request resolves to it and goes on to render, and every print *)
(* job it submits has deviceName equal to the configured name, whatever    *)
(* the default flags and the device's position.                            *)
(***************************************************************************)
C8_ExactMatchWins ==
    \A r \in DOMAIN req :
        (Enumerated(req[r]) /\ NameListed(req[r].storedPrinterName))
            => /\ req[r].target.name = req[r].storedPrinterName
               /\ HasEvent(req[r], "new:printWindow")
               /\ \A j \in DOMAIN req[r].jobs :
                      req[r].jobs[j].deviceName = req[r].storedPrinterName

\* The named device is second in the list, behind another device that is the
\* default, and the job has been submitted.
C8_Witness ==
    \E r \in DOMAIN req :
        /\ Len(devices) = 2
        /\ devices[1].isDefault
        /\ devices[1].name # req[r].storedPrinterName
        /\ devices[2].name = req[r].storedPrinterName
        /\ ~devices[2].isDefault
        /\ Len(req[r].jobs) = 1

(***************************************************************************)
(* C9.  Missing payload in the HTML agent: a request without html (absent  *)
(* or the empty string) is answered 400, and for it the configuration is   *)
(* not read, printers are not enumerated, no window is created and no      *)
(* print job is submitted.                                                 *)
(***************************************************************************)
C9_MissingHtml ==
    \A r \in DOMAIN req :
        (req[r].pc # "idle" /\ req[r].html \in {Undefined, ""})
            => /\ req[r].responses =
                     <<Response(400, FALSE, "Missing html in request body", Undefined)>>
               /\ req[r].pc = "done"
               /\ ~HasEvent(req[r], "store.get:printerName")
               /\ req[r].storedPrinterName = Undefined
               /\ ~HasEvent(req[r], "getPrintersAsync")
               /\ req[r].tmp = "none"
               /\ req[r].printWindow = "none"
               /\ req[r].jobs = <<>>

\* A request whose html is the empty string has been answered.
C9_Witness ==
    \E r \in DOMAIN req :
        /\ req[r].pc = "done"
        /\ req[r].html = ""
        /\ req[r].responses[1].status = 400

(***************************************************************************)
(* C10.  Missing payload in the PDF agent: a request without pdfBase64 is  *)
(* answered with status 400, and no temporary file is written for it.      *)
(***************************************************************************)
C10_MissingPdfIs400 ==
    \A r \in DOMAIN pdf :
        (pdf[r].pc = "done" /\ pdf[r].pdfBase64 \in {Undefined, ""})
            => /\ Len(pdf[r].responses) = 1
               /\ pdf[r].responses[1].status = 400
               /\ pdf[r].pdfPath = Undefined

(***************************************************************************)
(* C11.  Unconfigured printer: a request with a payload that was received  *)
(* while the configuration held no printer name is answered with an error  *)
(* (500, "No printer configured."), and for it printers are not            *)
(* enumerated, no print window is created and no print job is submitted.   *)
(***************************************************************************)
C11_Unconfigured ==
    \A r \in DOMAIN req :
        (req[r].pc # "idle" /\ ~Validate(req[r].html) /\ req[r].storedPrinterName = "")
            => /\ req[r].responses =
                     <<Response(500, FALSE, "No printer configured.", Undefined)>>
               /\ req[r].pc = "done"
               /\ ~HasEvent(req[r], "getPrintersAsync")
               /\ req[r].tmp = "none"
               /\ ~HasEvent(req[r], "new:printWindow")
               /\ req[r].printWindow = "none"
               /\ req[r].jobs = <<>>

\* The settings window saved an empty printer name, and a request with a
\* payload came after it.
C11_Witness ==
    \E r \in DOMAIN req :
        /\ store.printerName = ""
        /\ req[r].html = "<p>x</p>"
        /\ req[r].storedPrinterName = ""
        /\ req[r].pc = "done"

(***************************************************************************)
(* C12.  Step ordering within one request of the HTML agent: enumeration   *)
(* and resolution are complete before the print window is created and the  *)
(* document loaded; load and stabilisation are complete before the print   *)
(* job is submitted.  No job is submitted before resolution and            *)
(* stabilisation have both finished.                                       *)
(***************************************************************************)
C12_StepOrdering ==
    \A r \in DOMAIN req :
        /\ Precedes(req[r], "getPrintersAsync", "resolve")
        /\ Precedes(req[r], "resolve", "new:printWindow")
        /\ Precedes(req[r], "new:printWindow", "loadURL")
        /\ Precedes(req[r], "loadURL", "loaded")
        /\ Precedes(req[r], "loaded", "stabilise")
        /\ Precedes(req[r], "stabilise", "stabilised")
        /\ Precedes(req[r], "loaded", "print")
        /\ Precedes(req[r], "stabilised", "print")
        /\ Precedes(req[r], "resolve", "print")
        /\ req[r].jobs # <<>> =>
               /\ HasEvent(req[r], "print")
               /\ Enumerated(req[r])
               /\ req[r].target # NoDevice

\* A request that has submitted its print job.
C12_Witness ==
    \E r \in DOMAIN req :
        /\ req[r].pc = "printing"
        /\ Len(req[r].jobs) = 1
        /\ HasEvent(req[r], "stabilised")

(***************************************************************************)
(* C13.  Layout overlay before stabilisation: in every request of the HTML *)
(* agent the width-clamping style overlay has been applied (insertCSS has  *)
(* resolved) before the stabilisation wait is started.                     *)
(***************************************************************************)
C13_OverlayBeforeStabilisation ==
    \A r \in DOMAIN req : Precedes(req[r], "overlay", "stabilise")

(***************************************************************************)
(* C14.  Configuration changes are not retroactive: every print job of a   *)
(* request names the printer configured when the request was received,     *)
(* and the horizontal offset the request lays out for is the one           *)
(* configured when the request was received.                               *)
(***************************************************************************)
OffsetOf(config) == IF "xOffsetMm" \in DOMAIN config THEN config.xOffsetMm ELSE 0

C14_ConfigSnapshot ==
    \A r \in DOMAIN req :
        req[r].received # <<>> =>
            /\ \A j \in DOMAIN req[r].jobs :
                   req[r].jobs[j].deviceName = req[r].received[1].printerName
            /\ HasEvent(req[r], "store.get:xOffsetMm") =>
                   req[r].xOffsetMm = OffsetOf(req[r].received[1])

(***************************************************************************)
(* C15.  No retry, one submission: for every request of either agent the   *)
(* platform print call is made at most once, however many load-finished    *)
(* events fire and whatever the outcome.                                   *)
(***************************************************************************)
C15_OneSubmission ==
    /\ \A r \in DOMAIN req : Len(req[r].jobs) <= 1
    /\ \A r \in DOMAIN pdf : Len(pdf[r].jobs) <= 1

(***************************************************************************)
(* C16.  Load failure: a request whose document failed to load is answered *)
(* with a failure response that carries the load-failure description, its  *)
(* print window is closed, and no print job was or is submitted for it.    *)
(***************************************************************************)
\* The request was answered for a document that failed to load.
HtmlLoadFailed(q) ==
    \E i \in DOMAIN q.responses : q.responses[i].text = RejectMessage("loading")

PdfLoadFailed(q) ==
    \E i \in DOMAIN q.responses, e \in LoadErrors :
        q.responses[i].text = "Failed to load PDF: " \o e

C16_LoadFailure ==
    /\ \A r \in DOMAIN req :
           HtmlLoadFailed(req[r]) =>
               /\ req[r].responses =
                      <<Response(500, FALSE, RejectMessage("loading"), Undefined)>>
               /\ req[r].printWindow = "destroyed"
               /\ req[r].jobs = <<>>
    /\ \A r \in DOMAIN pdf :
           PdfLoadFailed(pdf[r]) =>
               /\ Len(pdf[r].responses) = 1
               /\ pdf[r].responses[1].status = 500
               /\ ~pdf[r].responses[1].success
               /\ pdf[r].printWindow = "destroyed"
               /\ pdf[r].jobs = <<>>

(***************************************************************************)
(* C17.  Successful outcome names the printer: every success response of   *)
(* either agent carries a printer name, and it is the deviceName given to  *)
(* the platform print call of that request.                                *)
(***************************************************************************)
C17_SuccessNamesPrinter ==
    /\ \A r \in DOMAIN req : \A i \in DOMAIN req[r].responses :
           req[r].responses[i].success =>
               /\ req[r].responses[i].printer # Undefined
               /\ \A j \in DOMAIN req[r].jobs :
                      req[r].jobs[j].deviceName = req[r].responses[i].printer
    /\ \A r \in DOMAIN pdf : \A i \in DOMAIN pdf[r].responses :
           pdf[r].responses[i].success =>
               /\ pdf[r].responses[i].printer # Undefined
               /\ \A j \in DOMAIN pdf[r].jobs :
                      pdf[r].jobs[j].deviceName = pdf[r].responses[i].printer

(***************************************************************************)
(* C18.  Failure reason never blank: the response sent when the print      *)
(* completion callback reports success = false carries the driver's reason *)
(* if it gave one and "Print failed" otherwise; and no failure response of *)
(* either agent has an empty or undefined error.                           *)
(***************************************************************************)
NormalizedReason(reason) == IF reason \in {"", Undefined} THEN "Print failed" ELSE reason

C18_FailureReasonNeverBlank ==
    /\ [][/\ \A r \in DOMAIN req, reason \in FailureReasons :
                 PrintCallback(r, FALSE, reason) =>
                     req'[r].responses = Append(req[r].responses,
                         Response(500, FALSE, NormalizedReason(reason), Undefined))
          /\ \A r \in DOMAIN pdf, reason \in FailureReasons, ok \in BOOLEAN :
                 (PdfPrintCallback(r, FALSE, reason, ok)
                      /\ pdf'[r].responses # pdf[r].responses) =>
                     pdf'[r].responses = Append(pdf[r].responses,
                         Response(500, FALSE, NormalizedReason(reason), Undefined))]_vars
    /\ [](/\ \A r \in DOMAIN req : \A i \in DOMAIN req[r].responses :
                 ~req[r].responses[i].success =>
                     req[r].responses[i].text \notin {"", Undefined}
          /\ \A r \in DOMAIN pdf : \A i \in DOMAIN pdf[r].responses :
                 ~pdf[r].responses[i].success =>
                     pdf[r].responses[i].text \notin {"", Undefined})

\* The driver reported failure without a reason, and the request was answered.
C18_Witness ==
    \E r \in DOMAIN req :
        /\ Len(req[r].jobs) = 1
        /\ req[r].responses = <<Response(500, FALSE, "Print failed", Undefined)>>

(***************************************************************************)
(* C19.  External print command failure: on a platform other than Windows, *)
(* when lp exits non-zero the request is answered with a failure response  *)
(* (status 500, success false), as for a negative print callback, and no   *)
(* success response is ever sent for it.                                   *)
(***************************************************************************)
C19_LpFailure ==
    /\ [][\A r \in DOMAIN pdf, ok \in BOOLEAN :
              LpExit(r, 1, ok) =>
                  /\ pdf'[r].responses =
                         <<Response(500, FALSE, LpFailureText(platform), Undefined)>>
                  /\ pdf'[r].pc = "done"]_vars
    /\ [](\A r \in DOMAIN pdf :
              (platform # "win32" /\ pdf[r].promise = "rejected") =>
                  \A i \in DOMAIN pdf[r].responses : ~pdf[r].responses[i].success)

\* lp failed on Linux and the request was answered.
C19_Witness ==
    \E r \in DOMAIN pdf :
        /\ platform = "linux"
        /\ pdf[r].promise = "rejected"
        /\ pdf[r].pc = "done"
        /\ Len(pdf[r].responses) = 1

(***************************************************************************)
(* C20.  Centering overlay geometry: on the 80 mm page with 72 mm of       *)
(* content, the overlay's left and right margins are 4 mm each when the    *)
(* horizontal offset is 0; with an offset the content is shifted by        *)
(* exactly the offset, and left margin + content width + right margin is   *)
(* still the 80 mm of the page.                                            *)
(***************************************************************************)
C20_OverlayGeometry ==
    \A r \in DOMAIN req : \A i \in DOMAIN req[r].css :
        LET o == req[r].css[i]
            x == req[r].xOffsetMm
        IN  /\ o.pageWidth = 80
            /\ o.width = 72
            /\ x = 0 => (o.marginLeft = 4 /\ o.marginRight = 4)
            /\ o.marginLeft = 4 + x
            /\ o.marginLeft + o.width + o.marginRight = 80

(***************************************************************************)
(* C21.  Page size handed to the dispatcher: every print job of the HTML   *)
(* agent has width 80000 microns and height max(120000, ceil(px * 25400 /  *)
(* 96)) microns for the content height px measured after stabilisation and *)
(* the overlay; the height is never below 120 mm and never below the       *)
(* content height.                                                         *)
(***************************************************************************)
C21_PageSize ==
    \A r \in DOMAIN req : \A j \in DOMAIN req[r].jobs :
        LET h == req[r].jobs[j].height
            content == req[r].scrollHeight * 25400      \* in microns * 96
        IN  /\ req[r].jobs[j].width = 80000
            /\ h >= 120000
            /\ h * 96 >= content
            /\ h = 120000 \/ (h - 1) * 96 < content
            /\ Precedes(req[r], "stabilised", "measure")
            /\ Precedes(req[r], "overlay", "measure")
            /\ Precedes(req[r], "padding", "measure")
            /\ Precedes(req[r], "measured", "print")

\* A job for content higher than the minimum, whose height in microns is not
\* a whole number before rounding.
C21_Witness ==
    \E r \in DOMAIN req :
        /\ Len(req[r].jobs) = 1
        /\ req[r].scrollHeight = 454
        /\ req[r].jobs[1].height = 120121

(***************************************************************************)
(* C22.  Cleanup failure is not propagated (PDF agent): when the print     *)
(* succeeded and deleting the temporary file failed, the request is        *)
(* answered with a success response, and with that response only.          *)
(***************************************************************************)
C22_CleanupFailureNotPropagated ==
    \A r \in DOMAIN pdf :
        pdf[r].cleanup = "failed" =>
            /\ pdf[r].promise = "resolved"
            /\ Len(pdf[r].responses) = 1
            /\ pdf[r].responses[1].status = 200
            /\ pdf[r].responses[1].success
            /\ pdf[r].responses[1].text = "Bill printed successfully"

\* The print succeeded, the unlink failed and the file is still there.
C22_Witness ==
    \E r \in DOMAIN pdf :
        /\ pdf[r].cleanup = "failed"
        /\ pdf[r].pdfPath \in DOMAIN files
        /\ pdf[r].pc = "done"

(***************************************************************************)
(* C23.  Close is safe and happens once: for no request is the print       *)
(* window closed, or a method of its webContents called, after the window  *)
(* was destroyed; the HTML agent closes its window once at most, and in    *)
(* the PDF agent no callback throws on a destroyed window.                 *)
(***************************************************************************)
C23_NoUseAfterDestroy ==
    /\ \A r \in DOMAIN req :
           Cardinality({i \in DOMAIN req[r].trace :
                            req[r].trace[i] = "printWindow.close"}) <= 1
    /\ \A r \in DOMAIN pdf : pdf[r].uncaught = 0

(***************************************************************************)
(* C24.  Enumeration window is always released: once a request (GET        *)
(* /printers or POST /print) has been answered, the hidden window it       *)
(* created to enumerate printers is not open, also when getPrintersAsync   *)
(* rejected.                                                               *)
(***************************************************************************)
C24_EnumerationWindowReleased ==
    \A r \in DOMAIN req : Responded(req[r]) => req[r].tmp # "open"

(***************************************************************************)
(* C25.  Test print reaches the running server: every test print from the  *)
(* tray menu is sent to the port the print server listens on, and so       *)
(* reaches the POST /print handler, also after save-settings changed the   *)
(* port and the user chose "Later".                                        *)
(***************************************************************************)
C25_TestPrintReachesServer ==
    \A i \in DOMAIN testPrints :
        /\ testPrints[i].port = serverPort
        /\ testPrints[i].connected

(***************************************************************************)
(* C26.  Displayed port equals listening port: in every state the port in  *)
(* the tray menu's status and endpoint labels is the port the print server *)
(* listens on.                                                             *)
(***************************************************************************)
C26_TrayShowsListeningPort == trayPort = serverPort

(***************************************************************************)
(* C27.  Settings window is a singleton: at most one settings window       *)
(* exists; the settingsWindow handle is non-null exactly while that window *)
(* exists; openSettings with a window open creates none; and save-settings *)
(* always finds the handle set.                                            *)
(***************************************************************************)
C27_SettingsSingleton ==
    /\ [](windows <= 1)
    /\ [](settingsWindow # "null" <=> windows = 1)
    /\ [][(OpenSettings /\ settingsWindow # "null") =>
              (windows' = windows /\ settingsWindow' = settingsWindow)]_vars
    /\ [][\A port \in Ports, name \in ConfigNames :
              SaveSettings(port, name) => settingsWindow = "open"]_vars

\* The port was changed, "Later" was chosen, and the settings window, which
\* the dialog branch leaves open, has gone since.
C27_Witness ==
    /\ store.port # serverPort
    /\ ~dialogOpen
    /\ settingsWindow = "null"
    /\ windows = 0

=============================================================================
